---- MODULE Spec2Model ----
(***************************************************************************)
(* A model of the parity-db stress-test visualizer: the filter-expression  *)
(* parser and evaluator (src/src/filter.rs) and the aggregation engine     *)
(* (src/src/lib.rs: RunningStatistics, SampleSet, ValueSet, DataSet,       *)
(* StressTestData, the reading of the data files by get_stress_test_data,  *)
(* and the labelling pass of draw_stress_test_data).                       *)
(*                                                                         *)
(* Rust strings are modelled as sequences of one-character strings, so     *)
(* that find, split, trim, parse and format are computed, not assumed.     *)
(***************************************************************************)
EXTENDS Integers, Sequences, FiniteSets, TLC

VARIABLES
    \* ---- filter.rs ------------------------------------------------------
    terms,          \* the terms the filter text was written from (input)
    filter_text,    \* the text handed to ParameterFilterSet::new
    comparisons,    \* the local `comparisons` of ParameterFilterSet::new
    filter_set,     \* the outcome of ParameterFilterSet::new
    parameters,     \* the parameter set handed to passes_filters
    passes,         \* the value passes_filters returned
    text_out,       \* the value display_text returned
    filter_set2,    \* ParameterFilterSet::new(display_text(filter_set))
    pc,             \* position of the filter pipeline
    \* ---- lib.rs: RunningStatistics --------------------------------------
    statistics,     \* a RunningStatistics
    sampled,        \* the samples added to it, in order
    \* ---- lib.rs: StressTestData -----------------------------------------
    data,           \* the StressTestData of get_stress_test_data
    rows,           \* the rows read so far, in order
    placed,         \* for each row read, the key of the DataSet it went to
    \* ---- lib.rs: draw_stress_test_data ----------------------------------
    chart_bool_parameters,  \* the chart_bool_parameters of the chart drawn
    exclude_parameters,     \* the local exclude_parameters of the chart
    display_names,          \* the label of every series drawn
    drawn,                  \* whether the chart has been drawn
    \* ---- lib.rs: get_stress_test_data, the data files -------------------
    lines,          \* the lines handed to the body of the loop, in order
    files,          \* the number of data files opened
    position        \* position of get_stress_test_data

filterVars == <<terms, filter_text, comparisons, filter_set, parameters, passes,
                text_out, filter_set2, pc>>
statsVars == <<statistics, sampled>>
dataVars == <<data, rows, placed>>
chartVars == <<chart_bool_parameters, exclude_parameters, display_names, drawn>>
ingestVars == <<lines, files, position>>
vars == <<filterVars, statsVars, dataVars, chartVars, ingestVars>>

----------------------------------------------------------------------------
(* Bounds of the model.                                                    *)

\* Largest number of comma-separated terms in a filter text.
MaxTerms == 2
\* Largest integer parameter value of a parameter set.
MaxInt == 2
\* Largest number of samples added to one RunningStatistics.
MaxSamples == 3
\* Largest number of rows read into one StressTestData.
MaxRows == 3
\* Largest commit count (x-key) of a row.
MaxCommits == 3
\* Largest num_readers of a row.
MaxReaders == 2
\* Largest number of lines of the data files handed to the body of the loop.
MaxLines == 2
\* Largest number of data files.
MaxFiles == 2

----------------------------------------------------------------------------
(* Strings.                                                                *)

Min(S) == CHOOSE x \in S : \A y \in S : x <= y

\* The byte value of each character the model uses (Rust compares strings
\* bytewise).
CharCode ==
    (" " :> 32) @@ ("(" :> 40) @@ (")" :> 41) @@ ("+" :> 43) @@ ("," :> 44) @@
    ("0" :> 48) @@ ("1" :> 49) @@ ("2" :> 50) @@ ("3" :> 51) @@ ("4" :> 52) @@
    ("5" :> 53) @@ ("6" :> 54) @@ ("7" :> 55) @@ ("8" :> 56) @@ ("9" :> 57) @@
    ("<" :> 60) @@ ("=" :> 61) @@ (">" :> 62) @@ ("A" :> 65) @@ ("B" :> 66) @@
    ("a" :> 97) @@ ("b" :> 98) @@ ("c" :> 99) @@ ("d" :> 100) @@ ("e" :> 101) @@
    ("f" :> 102) @@ ("g" :> 103) @@ ("h" :> 104) @@ ("i" :> 105) @@
    ("l" :> 108) @@ ("m" :> 109) @@ ("n" :> 110) @@ ("o" :> 111) @@
    ("p" :> 112) @@ ("r" :> 114) @@ ("s" :> 115) @@ ("t" :> 116) @@
    ("u" :> 117) @@ ("v" :> 118) @@ ("x" :> 120)

\* Ord for strings: -1, 0, 1 as String::cmp gives Less, Equal, Greater.
RECURSIVE StrCmp(_, _)
StrCmp(s, t) ==
    IF s = <<>> THEN (IF t = <<>> THEN 0 ELSE -1)
    ELSE IF t = <<>> THEN 1
    ELSE IF CharCode[Head(s)] < CharCode[Head(t)] THEN -1
    ELSE IF CharCode[Head(s)] > CharCode[Head(t)] THEN 1
    ELSE StrCmp(Tail(s), Tail(t))

\* str::find: the 0-based index of the first occurrence of pat, -1 for None.
Find(m, pat) ==
    LET hits == {p \in 0..Len(m) :
                    /\ p + Len(pat) <= Len(m)
                    /\ SubSeq(m, p + 1, p + Len(pat)) = pat}
    IN  IF hits = {} THEN -1 ELSE Min(hits)

\* str::split(','): the pieces between commas, empty pieces included.
RECURSIVE Split(_)
Split(s) ==
    LET p == Find(s, <<",">>)
    IN  IF p = -1 THEN <<s>>
        ELSE <<SubSeq(s, 1, p)>> \o Split(SubSeq(s, p + 2, Len(s)))

\* str::trim: leading and trailing white space removed.
RECURSIVE Trim(_)
Trim(s) ==
    IF s = <<>> THEN s
    ELSE IF Head(s) = " " THEN Trim(Tail(s))
    ELSE IF s[Len(s)] = " " THEN Trim(SubSeq(s, 1, Len(s) - 1))
    ELSE s

DigitChars == <<"0", "1", "2", "3", "4", "5", "6", "7", "8", "9">>
IsDigit(c) == \E i \in 1..10 : DigitChars[i] = c
DigitValue(c) == (CHOOSE i \in 1..10 : DigitChars[i] = c) - 1

\* str::parse::<bool>: exactly "true" or "false".
StrTrue == <<"t", "r", "u", "e">>
StrFalse == <<"f", "a", "l", "s", "e">>
ParsesBool(s) == s = StrTrue \/ s = StrFalse
ParseBool(s) == s = StrTrue

\* str::parse::<u64>: an optional '+', then one or more decimal digits.
\* (The texts of the model are far too short to overflow 64 bits.)
U64Digits(s) == IF s # <<>> /\ Head(s) = "+" THEN Tail(s) ELSE s
ParsesU64(s) ==
    /\ U64Digits(s) # <<>>
    /\ \A i \in 1..Len(U64Digits(s)) : IsDigit(U64Digits(s)[i])
RECURSIVE DigitsValue(_)
DigitsValue(ds) ==
    IF ds = <<>> THEN 0
    ELSE 10 * DigitsValue(SubSeq(ds, 1, Len(ds) - 1)) + DigitValue(ds[Len(ds)])
ParseU64(s) == DigitsValue(U64Digits(s))

\* format!("{}", v) of a u64: decimal, no sign, no leading zeros.
RECURSIVE FormatU64(_)
FormatU64(n) ==
    IF n < 10 THEN <<DigitChars[n + 1]>>
    ELSE FormatU64(n \div 10) \o <<DigitChars[(n % 10) + 1]>>

\* format!("{}", v) of a bool.
FormatBool(b) == IF b THEN StrTrue ELSE StrFalse

----------------------------------------------------------------------------
(* filter.rs: Comparison, ParameterFilter, ParameterFilterSet.             *)

\* A matching order that tries the one-character operators before the
\* two-character ones.
COMPARISONS_OneCharFirst == <<"Equal", "Less", "Greater", "LessEqual", "GreaterEqual">>

\* In order that they should be matched with text.
COMPARISONS == <<"Equal", "LessEqual", "GreaterEqual", "Less", "Greater">>

\* Comparison::get_text
get_text(c) ==
    CASE c = "Less" -> <<"<">>
      [] c = "LessEqual" -> <<"<", "=">>
      [] c = "Equal" -> <<"=", "=">>
      [] c = "GreaterEqual" -> <<">", "=">>
      [] c = "Greater" -> <<">">>

\* The inner loop of ParameterFilterSet::new over COMPARISONS for one piece
\* m of the text: the first comparison (in `order`) whose text occurs in m
\* splits m; <<>> when none occurs.
RECURSIVE MatchFrom(_, _, _)
MatchFrom(m, order, i) ==
    IF i > Len(order) THEN <<>>
    ELSE LET c == order[i]
             pos == Find(m, get_text(c))
         IN  IF pos # -1
             THEN << [name |-> Trim(SubSeq(m, 1, pos)),
                      comparison |-> c,
                      value_text |-> Trim(SubSeq(m, pos + Len(get_text(c)) + 1, Len(m)))] >>
             ELSE MatchFrom(m, order, i + 1)

MatchComparison(m) == MatchFrom(m, COMPARISONS, 1)

\* The first loop of ParameterFilterSet::new: (name, comparison, value text)
\* of every piece that holds a comparison.
RECURSIVE SplitComparisons(_)
SplitComparisons(pairs) ==
    IF pairs = <<>> THEN <<>>
    ELSE MatchComparison(Head(pairs)) \o SplitComparisons(Tail(pairs))

\* ParameterFilter::Bool(name, value) and ParameterFilter::Int(name, comparison, value)
FilterBool(name, v) == [kind |-> "Bool", name |-> name, value |-> v]
FilterInt(name, c, v) == [kind |-> "Int", name |-> name, comparison |-> c, value |-> v]

\* The second loop without its assertion: a boolean value with another
\* comparison than Equal is skipped.
RECURSIVE TypeFilters_NoAssert(_, _)
TypeFilters_NoAssert(cs, filters) ==
    IF cs = <<>> THEN [panicked |-> FALSE, filters |-> filters]
    ELSE LET c == Head(cs)
         IN  IF ParsesBool(c.value_text)
             THEN IF c.comparison # "Equal"
                  THEN TypeFilters_NoAssert(Tail(cs), filters)
                  ELSE TypeFilters_NoAssert(Tail(cs),
                           Append(filters, FilterBool(c.name, ParseBool(c.value_text))))
             ELSE IF ParsesU64(c.value_text)
             THEN TypeFilters_NoAssert(Tail(cs),
                      Append(filters, FilterInt(c.name, c.comparison, ParseU64(c.value_text))))
             ELSE TypeFilters_NoAssert(Tail(cs), filters)

\* The second loop leaving the loop at the first value that is neither a
\* boolean nor an integer.
RECURSIVE TypeFilters_StopAtMalformed(_, _)
TypeFilters_StopAtMalformed(cs, filters) ==
    IF cs = <<>> THEN [panicked |-> FALSE, filters |-> filters]
    ELSE LET c == Head(cs)
         IN  IF ParsesBool(c.value_text)
             THEN IF c.comparison # "Equal"
                  THEN [panicked |-> TRUE, filters |-> <<>>]
                  ELSE TypeFilters_StopAtMalformed(Tail(cs),
                           Append(filters, FilterBool(c.name, ParseBool(c.value_text))))
             ELSE IF ParsesU64(c.value_text)
             THEN TypeFilters_StopAtMalformed(Tail(cs),
                      Append(filters, FilterInt(c.name, c.comparison, ParseU64(c.value_text))))
             ELSE [panicked |-> FALSE, filters |-> filters]

\* The second loop of ParameterFilterSet::new. assert_eq! panics on a boolean
\* value whose comparison is not Equal: the construction ends there.
RECURSIVE TypeFilters(_, _)
TypeFilters(cs, filters) ==
    IF cs = <<>> THEN [panicked |-> FALSE, filters |-> filters]
    ELSE LET c == Head(cs)
         IN  IF ParsesBool(c.value_text)
             THEN IF c.comparison # "Equal"
                  THEN [panicked |-> TRUE, filters |-> <<>>]
                  ELSE TypeFilters(Tail(cs),
                           Append(filters, FilterBool(c.name, ParseBool(c.value_text))))
             ELSE IF ParsesU64(c.value_text)
             THEN TypeFilters(Tail(cs),
                      Append(filters, FilterInt(c.name, c.comparison, ParseU64(c.value_text))))
             ELSE TypeFilters(Tail(cs), filters)

\* The comparator of filters.sort_by: the names alone.
FilterOrder(a, b) == StrCmp(a.name, b.name)

\* Vec::sort_by is a stable sort: a filter goes after every filter that does
\* not compare Greater than it.
RECURSIVE InsertSorted(_, _)
InsertSorted(sorted, f) ==
    IF sorted = <<>> THEN <<f>>
    ELSE IF FilterOrder(Head(sorted), f) = 1 THEN <<f>> \o sorted
    ELSE <<Head(sorted)>> \o InsertSorted(Tail(sorted), f)

RECURSIVE SortFilters(_)
SortFilters(fs) ==
    IF fs = <<>> THEN <<>>
    ELSE InsertSorted(SortFilters(SubSeq(fs, 1, Len(fs) - 1)), fs[Len(fs)])

\* ParameterFilterSet::new: a filter set, or a panic.
FilterSetNew(text) ==
    LET typed == TypeFilters(SplitComparisons(Split(text)), <<>>)
    IN  IF typed.panicked THEN [status |-> "panicked", filters |-> <<>>]
        ELSE [status |-> "built", filters |-> SortFilters(typed.filters)]

\* ParameterValue::Bool(v) and ParameterValue::Int(v)
ValueBool(v) == [kind |-> "Bool", flag |-> v]
ValueInt(v) == [kind |-> "Int", number |-> v]

\* The match on filter_comp with Less rejecting only a greater value.
IntRejects_LessOffByOne(filter_comp, param_value, filter_value) ==
    CASE filter_comp = "Less" -> param_value > filter_value
      [] filter_comp = "LessEqual" -> param_value > filter_value
      [] filter_comp = "Equal" -> param_value # filter_value
      [] filter_comp = "GreaterEqual" -> param_value < filter_value
      [] filter_comp = "Greater" -> param_value <= filter_value

\* The match on filter_comp in passes_filters: TRUE when the integer
\* parameter value fails the filter.
IntRejects(filter_comp, param_value, filter_value) ==
    CASE filter_comp = "Less" -> param_value >= filter_value
      [] filter_comp = "LessEqual" -> param_value > filter_value
      [] filter_comp = "Equal" -> param_value # filter_value
      [] filter_comp = "GreaterEqual" -> param_value < filter_value
      [] filter_comp = "Greater" -> param_value <= filter_value

\* One iteration of the loop of passes_filters: TRUE when it sets
\* passes = false.
FilterRejects(filter, params) ==
    IF filter.name \notin DOMAIN params THEN FALSE
    ELSE LET param == params[filter.name]
         IN  IF filter.kind = "Bool"
             THEN IF param.kind = "Bool" THEN param.flag # filter.value ELSE FALSE
             ELSE IF param.kind = "Int"
                  THEN IntRejects(filter.comparison, param.number, filter.value)
                  ELSE FALSE

\* ParameterFilterSet::passes_filters: the loop over the filters, `passes`
\* starting true and never set back.
RECURSIVE PassesFrom(_, _, _)
PassesFrom(filters, params, passes_in) ==
    IF filters = <<>> THEN passes_in
    ELSE PassesFrom(Tail(filters), params,
                    IF FilterRejects(Head(filters), params) THEN FALSE ELSE passes_in)

passes_filters(filters, params) == PassesFrom(filters, params, TRUE)

\* The text display_text appends for one filter.
FilterText(filter) ==
    IF filter.kind = "Bool"
    THEN filter.name \o <<"=">> \o FormatBool(filter.value)
    ELSE filter.name \o get_text(filter.comparison) \o FormatU64(filter.value)

\* ParameterFilterSet::display_text
RECURSIVE DisplayFrom(_, _, _)
DisplayFrom(filters, text, prev_filter) ==
    IF filters = <<>> THEN text
    ELSE DisplayFrom(Tail(filters),
                     text \o (IF prev_filter THEN <<",", " ">> ELSE <<>>)
                          \o FilterText(Head(filters)),
                     TRUE)

display_text(filters) == DisplayFrom(filters, <<>>, FALSE)

----------------------------------------------------------------------------
(* f64. A finite value is an exact fraction n/d in lowest terms (rounding  *)
(* is not modelled, nor is the sign of zero); the infinities and NaN       *)
(* follow IEEE 754, as the f64 operators of the code do.                   *)

Abs(n) == IF n < 0 THEN -n ELSE n
Sign(n) == IF n < 0 THEN -1 ELSE IF n > 0 THEN 1 ELSE 0

RECURSIVE GCD(_, _)
GCD(a, b) == IF b = 0 THEN a ELSE GCD(b, a % b)

\* The finite value n/d, d # 0.
Fin(n, d) ==
    LET g == GCD(Abs(n), Abs(d))
    IN  [k |-> "fin", n |-> (Sign(d) * n) \div g, d |-> Abs(d) \div g]
Inf == [k |-> "inf"]
NegInf == [k |-> "ninf"]
NaN == [k |-> "nan"]
Zero == Fin(0, 1)

IsFinite(x) == x.k = "fin"
IsInfinite(x) == x.k = "inf" \/ x.k = "ninf"
IsNaN(x) == x.k = "nan"
\* -1, 0 or 1; x is not NaN.
FSign(x) == IF x.k = "fin" THEN Sign(x.n) ELSE IF x.k = "inf" THEN 1 ELSE -1
Signed(sign) == IF sign < 0 THEN NegInf ELSE Inf

\* x as f64, for a u64 x
FromU64(n) == Fin(n, 1)

\* -x
FNeg(x) ==
    CASE x.k = "fin" -> Fin(-x.n, x.d)
      [] x.k = "inf" -> NegInf
      [] x.k = "ninf" -> Inf
      [] x.k = "nan" -> NaN

\* x + y
FAdd(x, y) ==
    IF IsNaN(x) \/ IsNaN(y) THEN NaN
    ELSE IF IsFinite(x) /\ IsFinite(y) THEN Fin(x.n * y.d + y.n * x.d, x.d * y.d)
    ELSE IF IsInfinite(x) /\ IsInfinite(y) THEN (IF x = y THEN x ELSE NaN)
    ELSE IF IsInfinite(x) THEN x
    ELSE y

\* x - y
FSub(x, y) == FAdd(x, FNeg(y))

\* x * y
FMul(x, y) ==
    IF IsNaN(x) \/ IsNaN(y) THEN NaN
    ELSE IF IsFinite(x) /\ IsFinite(y) THEN Fin(x.n * y.n, x.d * y.d)
    ELSE IF FSign(x) = 0 \/ FSign(y) = 0 THEN NaN
    ELSE Signed(FSign(x) * FSign(y))

\* x / y
FDiv(x, y) ==
    IF IsNaN(x) \/ IsNaN(y) THEN NaN
    ELSE IF IsFinite(x) /\ IsFinite(y)
         THEN IF y.n # 0 THEN Fin(x.n * y.d, x.d * y.n)
              ELSE IF x.n = 0 THEN NaN
              ELSE Signed(Sign(x.n))
    ELSE IF IsInfinite(x) /\ IsInfinite(y) THEN NaN
    ELSE IF IsInfinite(x) THEN Signed(FSign(x) * (IF FSign(y) < 0 THEN -1 ELSE 1))
    ELSE Zero

\* x < y; neither is NaN
FLess(x, y) ==
    IF IsFinite(x) /\ IsFinite(y) THEN x.n * y.d < y.n * x.d
    ELSE IF x = y THEN FALSE
    ELSE x.k = "ninf" \/ y.k = "inf"

\* f64::max and f64::min: a NaN argument is ignored.
FMax(x, y) == IF IsNaN(x) THEN y ELSE IF IsNaN(y) THEN x ELSE IF FLess(x, y) THEN y ELSE x
FMin(x, y) == IF IsNaN(x) THEN y ELSE IF IsNaN(y) THEN x ELSE IF FLess(y, x) THEN y ELSE x

----------------------------------------------------------------------------
(* lib.rs: RunningStatistics.                                              *)

\* RunningStatistics::new
RunningStatistics_new ==
    [num |-> 0, old_m |-> Zero, new_m |-> Zero, old_s |-> Zero, new_s |-> Zero]

\* The update of new_s squaring the deviation from the old mean.
NextS_OldMeanTwice(old_s, sample, old_m, new_m) ==
    FAdd(old_s, FMul(FSub(sample, old_m), FSub(sample, old_m)))

\* The update of new_s in RunningStatistics::add_sample.
NextS(old_s, sample, old_m, new_m) ==
    FAdd(old_s, FMul(FSub(sample, old_m), FSub(sample, new_m)))

\* The update of new_m in RunningStatistics::add_sample.
NextM(old_m, sample, num) ==
    FAdd(old_m, FDiv(FSub(sample, old_m), FromU64(num)))

\* RunningStatistics::add_sample
RunningStatistics_add_sample(self, sample) ==
    LET num == self.num + 1
    IN  IF num = 1
        THEN [self EXCEPT !.num = num, !.old_m = sample, !.new_m = sample,
                          !.old_s = Zero]
        ELSE LET new_m == NextM(self.old_m, sample, num)
                 new_s == NextS(self.old_s, sample, self.old_m, new_m)
             IN  [num |-> num, old_m |-> new_m, new_m |-> new_m,
                  old_s |-> new_s, new_s |-> new_s]

\* RunningStatistics::mean
mean(self) == IF self.num > 0 THEN self.new_m ELSE Zero

\* RunningStatistics::variance
variance(self) ==
    IF self.num > 1 THEN FDiv(self.new_s, FromU64(self.num - 1)) ELSE Zero

----------------------------------------------------------------------------
(* lib.rs: SampleSet, ValueSet, DataSet, StressTestData.                   *)

\* SampleSet::new
SampleSet_new ==
    [samples |-> <<>>, value_min |-> Zero, value_max |-> Zero,
     statistics |-> RunningStatistics_new]

\* The update of value_min keeping the first sample for ever.
NextMin_FirstSample(self, sample) ==
    IF Len(self.samples) = 0 THEN sample ELSE self.value_min

\* The update of value_min in SampleSet::add_sample.
NextMin(self, sample) ==
    IF Len(self.samples) = 0 THEN sample ELSE FMin(self.value_min, sample)

\* The update of value_max taking the latest sample.
NextMax_LatestSample(self, sample) == sample

\* The update of value_max in SampleSet::add_sample.
NextMax(self, sample) ==
    IF Len(self.samples) = 0 THEN sample ELSE FMax(self.value_max, sample)

\* SampleSet::add_sample
SampleSet_add_sample(self, sample) ==
    [samples |-> Append(self.samples, sample),
     value_min |-> NextMin(self, sample),
     value_max |-> NextMax(self, sample),
     statistics |-> RunningStatistics_add_sample(self.statistics, sample)]

\* SampleSet::get_mean
get_mean(self) == mean(self.statistics)

\* ValueSet::new
ValueSet_new(num_commits) ==
    [num_commits |-> num_commits, commit_time |-> SampleSet_new,
     commits_per_second |-> SampleSet_new, queries_per_second |-> SampleSet_new]

\* ValueSet::add_sample
ValueSet_add_sample(self, commit_time, commits_per_second, queries_per_second) ==
    [self EXCEPT
        !.commit_time = SampleSet_add_sample(@, commit_time),
        !.commits_per_second = SampleSet_add_sample(@, commits_per_second),
        !.queries_per_second = SampleSet_add_sample(@, queries_per_second)]

\* DataSet::new
DataSet_new(base_name, set_bool_parameters) ==
    [base_name |-> base_name, set_bool_parameters |-> set_bool_parameters,
     sorted_values |-> <<>>,
     max_commits |-> 0, max_commit_time |-> Zero,
     max_commits_per_second |-> Zero, max_queries_per_second |-> Zero]

\* <[ValueSet]>::binary_search_by(|probe| probe.num_commits.cmp(&commits)):
\* Ok(index) (found) or Err(index) (the place to insert at), 0-based.
RECURSIVE BinarySearch(_, _, _, _)
BinarySearch(values, commits, left, right) ==
    IF left >= right THEN [found |-> FALSE, index |-> left]
    ELSE LET mid == left + ((right - left) \div 2)
             probe == values[mid + 1].num_commits
         IN  IF probe < commits THEN BinarySearch(values, commits, mid + 1, right)
             ELSE IF probe > commits THEN BinarySearch(values, commits, left, mid)
             ELSE [found |-> TRUE, index |-> mid]

\* Vec::push(element) in the place of Vec::insert(index, element).
InsertAt_AtEnd(seq, index, element) == Append(seq, element)

\* Vec::insert(index, element), 0-based.
InsertAt(seq, index, element) ==
    SubSeq(seq, 1, index) \o <<element>> \o SubSeq(seq, index + 1, Len(seq))

\* The match on the search result in DataSet::add_sample.
NextSortedValues(sorted_values, commits, commit_time, commits_per_second, queries_per_second) ==
    LET r == BinarySearch(sorted_values, commits, 0, Len(sorted_values))
    IN  IF r.found
        THEN [sorted_values EXCEPT ![r.index + 1] =
                 ValueSet_add_sample(@, commit_time, commits_per_second, queries_per_second)]
        ELSE InsertAt(sorted_values, r.index,
                 ValueSet_add_sample(ValueSet_new(commits),
                     commit_time, commits_per_second, queries_per_second))

\* The latest of the two in the place of std::cmp::max.
MaxU64_Latest(a, b) == b

\* std::cmp::max on u64
MaxU64(a, b) == IF a >= b THEN a ELSE b

\* DataSet::add_sample
DataSet_add_sample(self, commits, commit_time, commits_per_second, queries_per_second) ==
    [self EXCEPT
        !.max_commits = MaxU64(@, commits),
        !.max_commit_time = FMax(@, commit_time),
        !.max_commits_per_second = FMax(@, commits_per_second),
        !.max_queries_per_second = FMax(@, queries_per_second),
        !.sorted_values = NextSortedValues(@, commits, commit_time,
                                           commits_per_second, queries_per_second)]

\* The elements of a BTreeSet<String>, in the order it iterates them.
RECURSIVE InOrder(_)
InOrder(S) ==
    IF S = {} THEN <<>>
    ELSE LET least == CHOOSE x \in S : \A y \in S : StrCmp(x, y) <= 0
         IN  <<least>> \o InOrder(S \ {least})

\* The loop of DataSet::get_name and DataSet::get_name_excluding over the
\* parameters that are listed.
RECURSIVE Suffix(_, _, _)
Suffix(listed, suffix, prev_param) ==
    IF listed = <<>> THEN suffix
    ELSE Suffix(Tail(listed),
                suffix \o (IF prev_param THEN <<" ">> ELSE <<>>) \o Head(listed),
                TRUE)

\* The end of DataSet::get_name and DataSet::get_name_excluding.
WithSuffix(base_name, suffix) ==
    base_name \o (IF Len(suffix) > 0 THEN <<" ", "(">> \o suffix \o <<")">> ELSE <<>>)

\* DataSet::get_name
get_name(base_name, set_bool_parameters) ==
    WithSuffix(base_name, Suffix(InOrder(set_bool_parameters), <<>>, FALSE))

\* DataSet::get_name_excluding
get_name_excluding(base_name, set_bool_parameters, excluded) ==
    WithSuffix(base_name,
               Suffix(InOrder(set_bool_parameters \ excluded), <<>>, FALSE))

\* DataSet::bool_parameter_set
bool_parameter_set(self, param) == param \in self.set_bool_parameters

\* DataSet::passed_filters
passed_filters(self, chart_filters) ==
    \A param \in DOMAIN chart_filters :
        bool_parameter_set(self, param) = chart_filters[param]

\* StressTestData::new
StressTestData_new ==
    [datasets |-> <<>>, max_commits |-> 0, max_commit_time |-> Zero,
     max_commits_per_second |-> Zero, max_queries_per_second |-> Zero]

\* The match with a new DataSet taking the place of the map.
NextDatasets_OnlyLatest(datasets, full_name, base_name, set_bool_parameters, commits, commit_time, commits_per_second, queries_per_second) ==
    IF full_name \in DOMAIN datasets
    THEN [datasets EXCEPT ![full_name] =
             DataSet_add_sample(@, commits, commit_time, commits_per_second,
                                queries_per_second)]
    ELSE (full_name :> DataSet_add_sample(DataSet_new(base_name, set_bool_parameters),
                           commits, commit_time, commits_per_second, queries_per_second))

\* The match on self.datasets.entry(full_name) in StressTestData::add_sample.
NextDatasets(datasets, full_name, base_name, set_bool_parameters, commits, commit_time, commits_per_second, queries_per_second) ==
    IF full_name \in DOMAIN datasets
    THEN [datasets EXCEPT ![full_name] =
             DataSet_add_sample(@, commits, commit_time, commits_per_second,
                                queries_per_second)]
    ELSE (full_name :> DataSet_add_sample(DataSet_new(base_name, set_bool_parameters),
                           commits, commit_time, commits_per_second, queries_per_second))
         @@ datasets

\* StressTestData::add_sample
StressTestData_add_sample(self, base_name, set_bool_parameters, commits, commit_time, commits_per_second, queries_per_second) ==
    [datasets |-> NextDatasets(self.datasets, get_name(base_name, set_bool_parameters),
                               base_name, set_bool_parameters,
                               commits, commit_time, commits_per_second, queries_per_second),
     max_commits |-> MaxU64(self.max_commits, commits),
     max_commit_time |-> FMax(self.max_commit_time, commit_time),
     max_commits_per_second |-> FMax(self.max_commits_per_second, commits_per_second),
     max_queries_per_second |-> FMax(self.max_queries_per_second, queries_per_second)]

\* The names of the boolean parameters.
StrArchive == <<"a", "r", "c", "h", "i", "v", "e">>
StrCompress == <<"c", "o", "m", "p", "r", "e", "s", "s">>
StrOrdered == <<"o", "r", "d", "e", "r", "e", "d">>
StrUniform == <<"u", "n", "i", "f", "o", "r", "m">>
StrProgressive == <<"p", "r", "o", "g", "r", "e", "s", "s", "i", "v", "e">>
StrReaders == <<"r", "e", "a", "d", "e", "r", "s">>

\* A parsed row of a data file: the fields get_stress_test_data reads and
\* uses (num_writers, writer_commits_per_sleep, writer_sleep_time and
\* commits_per_timing_sample are parsed and not used).
\* set_bool_parameters of a row.
SetBoolParameters(row) ==
    (IF row.archive THEN {StrArchive} ELSE {}) \cup
    (IF row.compress THEN {StrCompress} ELSE {}) \cup
    (IF row.ordered THEN {StrOrdered} ELSE {}) \cup
    (IF row.uniform THEN {StrUniform} ELSE {}) \cup
    (IF row.progressive THEN {StrProgressive} ELSE {}) \cup
    (IF row.num_readers > 0 THEN {StrReaders} ELSE {})

\* commits as f64 / commit_time
CommitsPerSecond(row) == FDiv(FromU64(row.commits), row.commit_time)
\* queries as f64 / query_time
QueriesPerSecond(row) == FDiv(FromU64(row.queries), row.query_time)

\* The body of the loop over the lines of get_stress_test_data, after the
\* fields are parsed.
ReadRowInto(self, row) ==
    StressTestData_add_sample(self, row.base_name, SetBoolParameters(row),
        row.total_commits, row.total_commit_time,
        CommitsPerSecond(row), QueriesPerSecond(row))

----------------------------------------------------------------------------
(* lib.rs: get_stress_test_data, the fields of one line.                   *)

\* str::parse::<f64>: an optional sign, then "inf", "infinity" or "nan" in
\* any case, or decimal digits with an optional '.' and an optional
\* exponent; at least one digit before the exponent.
LowerChar(c) ==
    CASE c = "I" -> "i" [] c = "N" -> "n" [] c = "F" -> "f" [] c = "T" -> "t"
      [] c = "Y" -> "y" [] c = "A" -> "a" [] c = "E" -> "e" [] OTHER -> c
Lower(s) == [i \in 1..Len(s) |-> LowerChar(s[i])]
StrInf == <<"i", "n", "f">>
StrInfinity == <<"i", "n", "f", "i", "n", "i", "t", "y">>
StrNan == <<"n", "a", "n">>
HasSign(s) == s # <<>> /\ Head(s) \in {"+", "-"}
Unsigned(s) == IF HasSign(s) THEN Tail(s) ELSE s
AllDigits(s) == \A i \in 1..Len(s) : IsDigit(s[i])
\* The place of the exponent mark in an unsigned text, -1 for none.
ExponentAt(s) == Find(Lower(s), <<"e">>)
MantissaText(s) == IF ExponentAt(s) = -1 THEN s ELSE SubSeq(s, 1, ExponentAt(s))
ExponentText(s) == SubSeq(s, ExponentAt(s) + 2, Len(s))
IntegerText(m) ==
    IF Find(m, <<".">>) = -1 THEN m ELSE SubSeq(m, 1, Find(m, <<".">>))
FractionText(m) ==
    IF Find(m, <<".">>) = -1 THEN <<>> ELSE SubSeq(m, Find(m, <<".">>) + 2, Len(m))
ParsesDecimal(s) ==
    /\ AllDigits(IntegerText(MantissaText(s)))
    /\ AllDigits(FractionText(MantissaText(s)))
    /\ Len(IntegerText(MantissaText(s))) + Len(FractionText(MantissaText(s))) > 0
    /\ ExponentAt(s) # -1 =>
          /\ Unsigned(ExponentText(s)) # <<>>
          /\ AllDigits(Unsigned(ExponentText(s)))
ParsesF64(s) ==
    \/ Lower(Unsigned(s)) \in {StrInf, StrInfinity, StrNan}
    \/ ParsesDecimal(Unsigned(s))

RECURSIVE Pow10(_)
Pow10(e) == IF e = 0 THEN 1 ELSE 10 * Pow10(e - 1)
\* The value of an unsigned decimal text that parses.
DecimalValue(s) ==
    LET digits == IntegerText(MantissaText(s)) \o FractionText(MantissaText(s))
        scale == Len(FractionText(MantissaText(s)))
        e == IF ExponentAt(s) = -1 THEN 0
             ELSE (IF Head(ExponentText(s)) = "-" THEN -1 ELSE 1)
                      * DigitsValue(Unsigned(ExponentText(s)))
    IN  IF e >= scale THEN Fin(DigitsValue(digits) * Pow10(e - scale), 1)
        ELSE Fin(DigitsValue(digits), Pow10(scale - e))
ParseF64(s) ==
    LET value == IF Lower(Unsigned(s)) \in {StrInf, StrInfinity} THEN Inf
                 ELSE IF Lower(Unsigned(s)) = StrNan THEN NaN
                 ELSE DecimalValue(Unsigned(s))
    IN  IF HasSign(s) /\ Head(s) = "-" THEN FNeg(value) ELSE value

\* The types the fields of a line are parsed as, in the order of the
\* elements.next() calls: base_name, archive, compress, ordered, uniform,
\* num_readers, num_writers, writer_commits_per_sleep, writer_sleep_time,
\* commits_per_timing_sample, progressive, total_commits,
\* total_commit_time, commits, commit_time, queries, query_time.
FieldKinds ==
    <<"String", "bool", "bool", "bool", "bool", "u64", "u64", "u64", "u64", "u64",
      "bool", "u64", "f64", "u64", "f64", "u64", "f64">>

\* Whether .parse() of a field is Ok.
FieldParses(kind, text) ==
    CASE kind = "String" -> TRUE
      [] kind = "bool" -> ParsesBool(text)
      [] kind = "u64" -> ParsesU64(text)
      [] kind = "f64" -> ParsesF64(text)

\* Whether one of the unwrap() calls of the body of the loop panics:
\* elements.next() is None, or .parse() is Err. Elements left over after
\* the last elements.next() are never looked at.
RECURSIVE FieldsPanic(_, _)
FieldsPanic(elements, kinds) ==
    IF kinds = <<>> THEN FALSE
    ELSE IF elements = <<>> THEN TRUE
    ELSE IF ~FieldParses(Head(kinds), Head(elements)) THEN TRUE
    ELSE FieldsPanic(Tail(elements), Tail(kinds))

LinePanics(line) == FieldsPanic(Split(line), FieldKinds)

\* The values the body of the loop binds, for a line that does not panic.
ParsedRow(line) ==
    LET elements == Split(line)
    IN  [base_name |-> elements[1],
         archive |-> ParseBool(elements[2]), compress |-> ParseBool(elements[3]),
         ordered |-> ParseBool(elements[4]), uniform |-> ParseBool(elements[5]),
         num_readers |-> ParseU64(elements[6]),
         progressive |-> ParseBool(elements[11]),
         total_commits |-> ParseU64(elements[12]),
         total_commit_time |-> ParseF64(elements[13]),
         commits |-> ParseU64(elements[14]), commit_time |-> ParseF64(elements[15]),
         queries |-> ParseU64(elements[16]), query_time |-> ParseF64(elements[17])]

----------------------------------------------------------------------------
(* lib.rs: draw_stress_test_data, the labels of one chart.                 *)

\* The parameters draw_stress_test_data compares.
BoolParameterNames ==
    {StrArchive, StrCompress, StrOrdered, StrUniform, StrReaders, StrProgressive}

\* A comparison that looks at the entry alone.
ParameterChanged_EntryOnly(entry, dataset, param) == bool_parameter_set(entry, param)

\* entry.1.bool_parameter_set(param) != dataset.bool_parameter_set(param)
ParameterChanged(entry, dataset, param) ==
    bool_parameter_set(entry, param) # bool_parameter_set(dataset, param)

\* The loop over the datasets that sets first_dataset and the *_changed
\* flags; `entries` are the datasets that passed the filters, in the order
\* of the loop, first_dataset is <<>> for None.
RECURSIVE ChangedFrom(_, _, _)
ChangedFrom(entries, first_dataset, changed) ==
    IF entries = <<>> THEN changed
    ELSE IF first_dataset = <<>>
         THEN ChangedFrom(Tail(entries), <<Head(entries)>>, changed)
         ELSE ChangedFrom(Tail(entries), first_dataset,
                  changed \cup {param \in BoolParameterNames :
                                   ParameterChanged(Head(entries), first_dataset[1], param)})

Changed(entries) == ChangedFrom(entries, <<>>, {})

\* The keys of the datasets in the order of datasets_presort.sort_by.
SortedKeys(d) == InOrder(DOMAIN d.datasets)

\* The datasets that pass the filters of the chart, in the order of the loop.
Passing(d, chart) ==
    LET keys == SelectSeq(SortedKeys(d),
                    LAMBDA key : passed_filters(d.datasets[key], chart))
    IN  [i \in 1..Len(keys) |-> d.datasets[keys[i]]]

\* No parameter put into exclude_parameters.
ExcludeParameters_None(d, chart) == {}

\* The parameters put into exclude_parameters.
ExcludeParameters(d, chart) == BoolParameterNames \ Changed(Passing(d, chart))

\* The display_name of every dataset that passes the filters.
DisplayNames(d, chart) ==
    LET keys == {key \in DOMAIN d.datasets : passed_filters(d.datasets[key], chart)}
    IN  [key \in keys |->
            get_name_excluding(d.datasets[key].base_name,
                               d.datasets[key].set_bool_parameters,
                               ExcludeParameters(d, chart))]

----------------------------------------------------------------------------
(* The filter texts and parameter sets the filter pipeline is run on.      *)

StrA == <<"a">>
StrB == <<"b">>
Str1 == <<"1">>

\* A term as it is written: name, operator, value text, and whether it is
\* written with white space around the name and the value.
Term(name, op, value, pad) == [name |-> name, op |-> op, value |-> value, pad |-> pad]

IntComparisonTerms ==
    {Term(n, COMPARISONS[i], Str1, FALSE) : n \in {StrA, StrB}, i \in 1..5}

TermPool ==
    IntComparisonTerms \cup
    { Term(StrA, "Equal", StrTrue, FALSE),          \* a==true
      Term(StrB, "Equal", StrFalse, FALSE),         \* b==false
      Term(StrA, "LessEqual", Str1, TRUE),          \* " a <= 1 "
      Term(StrB, "GreaterEqual", <<"0", "2">>, FALSE),   \* b>=02
      Term(StrA, "Less", StrTrue, FALSE),           \* a<true : boolean, not ==
      Term(StrB, "Equal", <<"x">>, FALSE) }         \* b==x   : no value

RenderTerm(t) ==
    IF t.pad
    THEN <<" ">> \o t.name \o <<" ">> \o get_text(t.op) \o <<" ">> \o t.value \o <<" ">>
    ELSE t.name \o get_text(t.op) \o t.value

RECURSIVE JoinTerms(_)
JoinTerms(ts) ==
    IF ts = <<>> THEN <<>>
    ELSE IF Len(ts) = 1 THEN RenderTerm(ts[1])
    ELSE RenderTerm(Head(ts)) \o <<",">> \o JoinTerms(Tail(ts))

TermSeqs == UNION {[1..k -> TermPool] : k \in 0..MaxTerms}

ParamNames == {StrA, StrB}
ParamValues == {ValueBool(TRUE), ValueBool(FALSE)} \cup {ValueInt(n) : n \in 0..MaxInt}
ParamSets == UNION {[D -> ParamValues] : D \in SUBSET ParamNames}

NoFilterSet == [status |-> "none", filters |-> <<>>]

----------------------------------------------------------------------------
(* The filter pipeline: build a filter set from a text, then either        *)
(* evaluate it on a parameter set or display it and build a filter set     *)
(* from the displayed text.                                                *)

FilterStart(ts) ==
    /\ terms = ts
    /\ filter_text = JoinTerms(ts)
    /\ comparisons = <<>>
    /\ filter_set = NoFilterSet
    /\ parameters = <<>>
    /\ passes = TRUE
    /\ text_out = <<>>
    /\ filter_set2 = NoFilterSet
    /\ pc = "start"

StatsStart ==
    /\ statistics = RunningStatistics_new
    /\ sampled = <<>>

DataStart ==
    /\ data = StressTestData_new
    /\ rows = <<>>
    /\ placed = <<>>

ChartStart ==
    /\ chart_bool_parameters = <<>>
    /\ exclude_parameters = {}
    /\ display_names = <<>>
    /\ drawn = FALSE

IngestStart ==
    /\ lines = <<>>
    /\ files = 0
    /\ position = "paths"

InitFilter ==
    /\ \E ts \in TermSeqs : FilterStart(ts)
    /\ StatsStart
    /\ DataStart
    /\ ChartStart
    /\ IngestStart

\* ParameterFilterSet::new(&filter_text)
New ==
    /\ pc = "start"
    /\ comparisons' = SplitComparisons(Split(filter_text))
    /\ filter_set' = FilterSetNew(filter_text)
    /\ pc' = "built"
    /\ UNCHANGED <<terms, filter_text, parameters, passes, text_out, filter_set2, statsVars, dataVars, chartVars, ingestVars>>

\* filter_set.passes_filters(&parameters)
PassesFilters ==
    /\ pc = "built"
    /\ filter_set.status = "built"
    /\ \E p \in ParamSets :
          /\ parameters' = p
          /\ passes' = passes_filters(filter_set.filters, p)
    /\ pc' = "evaluated"
    /\ UNCHANGED <<terms, filter_text, comparisons, filter_set, text_out, filter_set2, statsVars, dataVars, chartVars, ingestVars>>

\* filter_set.display_text()
DisplayText ==
    /\ pc = "built"
    /\ filter_set.status = "built"
    /\ text_out' = display_text(filter_set.filters)
    /\ pc' = "displayed"
    /\ UNCHANGED <<terms, filter_text, comparisons, filter_set, parameters, passes, filter_set2, statsVars, dataVars, chartVars, ingestVars>>

\* ParameterFilterSet::new(&filter_set.display_text())
Reparse ==
    /\ pc = "displayed"
    /\ filter_set2' = FilterSetNew(text_out)
    /\ pc' = "reparsed"
    /\ UNCHANGED <<terms, filter_text, comparisons, filter_set, parameters, passes, text_out, statsVars, dataVars, chartVars, ingestVars>>

NextFilter == New \/ PassesFilters \/ DisplayText \/ Reparse

SpecFilter == InitFilter /\ [][NextFilter]_vars

----------------------------------------------------------------------------
(* A RunningStatistics fed one sample after the other.                     *)

SampleValues == {Zero, Fin(1, 1), Fin(3, 1), Fin(1, 2), Inf, NaN}

InitStats ==
    /\ FilterStart(<<>>)
    /\ StatsStart
    /\ DataStart
    /\ ChartStart
    /\ IngestStart

\* statistics.add_sample(sample)
AddSample ==
    /\ Len(sampled) < MaxSamples
    /\ \E sample \in SampleValues :
          /\ statistics' = RunningStatistics_add_sample(statistics, sample)
          /\ sampled' = Append(sampled, sample)
    /\ UNCHANGED <<filterVars, dataVars, chartVars, ingestVars>>

NextStats == AddSample

SpecStats == InitStats /\ [][NextStats]_vars

----------------------------------------------------------------------------
(* get_stress_test_data: the rows of the data files read one after the     *)
(* other into a StressTestData.                                            *)

StrBaseA == <<"A">>
\* A base name that reads like a name with a parameter suffix: "A (archive)"
StrBaseASuffixed == StrBaseA \o <<" ", "(">> \o StrArchive \o <<")">>
One == Fin(1, 1)

DefaultRow ==
    [base_name |-> StrBaseA,
     archive |-> FALSE, compress |-> FALSE, ordered |-> FALSE, uniform |-> FALSE,
     num_readers |-> 0, progressive |-> FALSE,
     total_commits |-> 1, total_commit_time |-> One,
     commits |-> 1, commit_time |-> One,
     queries |-> 1, query_time |-> One]

\* The rows of the data files: the default row with its name and archive
\* flag, its number of readers, its commit count, its commit time or its
\* queries and query time changed (0/0 is NaN and 3/0 an infinity).
DataRows ==
    {[DefaultRow EXCEPT !.base_name = b, !.archive = a] :
        b \in {StrBaseA, StrBaseASuffixed}, a \in BOOLEAN} \cup
    {[DefaultRow EXCEPT !.num_readers = n] : n \in 0..MaxReaders} \cup
    {[DefaultRow EXCEPT !.total_commits = c] : c \in 1..MaxCommits} \cup
    {[DefaultRow EXCEPT !.total_commit_time = Fin(3, 1), !.commit_time = Fin(2, 1)]} \cup
    {[DefaultRow EXCEPT !.queries = q, !.query_time = t] :
        q \in {0, 3}, t \in {Zero, One}}

InitData ==
    /\ FilterStart(<<>>)
    /\ StatsStart
    /\ DataStart
    /\ ChartStart
    /\ IngestStart

\* One turn of the loop over the lines of a data file, for a row of `pool`.
ReadRowFrom(pool) ==
    /\ ~drawn
    /\ Len(rows) < MaxRows
    /\ \E row \in pool :
          /\ data' = ReadRowInto(data, row)
          /\ rows' = Append(rows, row)
          /\ placed' = Append(placed, get_name(row.base_name, SetBoolParameters(row)))
    /\ UNCHANGED <<filterVars, statsVars, chartVars, ingestVars>>

ReadRow == ReadRowFrom(DataRows)

NextData == ReadRow

SpecData == InitData /\ [][NextData]_vars

----------------------------------------------------------------------------
(* get_stress_test_data: the data files opened one after the other, the    *)
(* first line of each skipped, every other line split and parsed.          *)

Str0 == <<"0">>
\* The fields of a line that parses (the row DefaultRow).
DefaultFields ==
    <<StrBaseA, StrFalse, StrFalse, StrFalse, StrFalse, Str0, Str1, Str1, Str1, Str1,
      StrFalse, Str1, Str1, Str1, Str1, Str1, Str1>>

\* The fields of a line with commas between them.
RECURSIVE JoinFields(_)
JoinFields(fields) ==
    IF fields = <<>> THEN <<>>
    ELSE IF Len(fields) = 1 THEN fields[1]
    ELSE fields[1] \o <<",">> \o JoinFields(Tail(fields))

\* The lines of the data files: lines that parse (the default line, one
\* of another series, one with a decimal point and another x-key, one with
\* NaN as query_time), a line with a column missing, a line with a column
\* too many, an empty line, and lines with a field that does not parse (a
\* bool, a u64, an f64, and a u64 the code parses and does not use).
LinePool ==
    {JoinFields(fields) : fields \in
        {DefaultFields,
         [DefaultFields EXCEPT ![2] = StrTrue],
         [DefaultFields EXCEPT ![12] = <<"2">>, ![13] = <<"2", ".", "5">>],
         [DefaultFields EXCEPT ![17] = <<"N", "a", "N">>],
         SubSeq(DefaultFields, 1, Len(DefaultFields) - 1),
         DefaultFields \o <<Str1>>,
         <<>>,
         [DefaultFields EXCEPT ![2] = Str1],
         [DefaultFields EXCEPT ![6] = <<"-", "1">>],
         [DefaultFields EXCEPT ![15] = <<"x">>],
         [DefaultFields EXCEPT ![7] = <<>>]}}

InitIngest ==
    /\ FilterStart(<<>>)
    /\ StatsStart
    /\ DataStart
    /\ ChartStart
    /\ IngestStart

\* One turn of `for path in paths`: the file is opened.
OpenFile ==
    /\ position = "paths"
    /\ files < MaxFiles
    /\ files' = files + 1
    /\ position' = "header"
    /\ UNCHANGED <<lines, filterVars, statsVars, dataVars, chartVars>>

\* reader.lines().skip(1): the first line of the file, whatever it holds,
\* is not handed to the body of the loop.
SkipHeader ==
    /\ position = "header"
    /\ position' = "rows"
    /\ UNCHANGED <<lines, files, filterVars, statsVars, dataVars, chartVars>>

\* One turn of the loop over the lines: a line is split and parsed, and the
\* row is added to the data; a panic ends get_stress_test_data, and the
\* data built so far is dropped with it.
ReadLine ==
    /\ position = "rows"
    /\ Len(lines) < MaxLines
    /\ \E line \in LinePool :
          /\ lines' = Append(lines, line)
          /\ IF LinePanics(line)
             THEN /\ position' = "panicked"
                  /\ UNCHANGED dataVars
             ELSE /\ data' = ReadRowInto(data, ParsedRow(line))
                  /\ rows' = Append(rows, ParsedRow(line))
                  /\ placed' = Append(placed,
                         get_name(ParsedRow(line).base_name,
                                  SetBoolParameters(ParsedRow(line))))
                  /\ UNCHANGED position
    /\ UNCHANGED <<files, filterVars, statsVars, chartVars>>

\* The lines of the file are exhausted (a file may be empty).
EndOfFile ==
    /\ position \in {"header", "rows"}
    /\ position' = "paths"
    /\ UNCHANGED <<lines, files, filterVars, statsVars, dataVars, chartVars>>

\* Some(data): the paths are exhausted.
Return ==
    /\ position = "paths"
    /\ position' = "returned"
    /\ UNCHANGED <<lines, files, filterVars, statsVars, dataVars, chartVars>>

NextIngest == OpenFile \/ SkipHeader \/ ReadLine \/ EndOfFile \/ Return

SpecIngest == InitIngest /\ [][NextIngest]_vars

----------------------------------------------------------------------------
(* draw_stress_test_data: a chart drawn from the data that was read.       *)

\* Rows of one base name with every choice of three of the parameters.
ChartRows ==
    {[DefaultRow EXCEPT !.archive = a, !.compress = c, !.num_readers = n] :
        a \in BOOLEAN, c \in BOOLEAN, n \in {0, 1}}

\* The chart_bool_parameters of a chart specification.
ChartFilters == UNION {[D -> BOOLEAN] : D \in SUBSET {StrArchive, StrCompress}}

InitChart ==
    /\ FilterStart(<<>>)
    /\ StatsStart
    /\ DataStart
    /\ ChartStart
    /\ IngestStart

ReadChartRow == ReadRowFrom(ChartRows)

\* One turn of the loop over the charts of draw_stress_test_data.
DrawChart ==
    /\ ~drawn
    /\ \E chart \in ChartFilters :
          /\ chart_bool_parameters' = chart
          /\ exclude_parameters' = ExcludeParameters(data, chart)
          /\ display_names' = DisplayNames(data, chart)
    /\ drawn' = TRUE
    /\ UNCHANGED <<filterVars, statsVars, dataVars, ingestVars>>

NextChart == ReadChartRow \/ DrawChart

SpecChart == InitChart /\ [][NextChart]_vars

----------------------------------------------------------------------------
(* draw_stress_test_data: a chart drawn from data whose base names differ, *)
(* one of them reading like a name with a parameter suffix.                *)

\* Rows of two base names with every choice of two of the parameters.
LabelRows ==
    {[DefaultRow EXCEPT !.base_name = b, !.archive = a, !.compress = c] :
        b \in {StrBaseA, StrBaseASuffixed}, a \in BOOLEAN, c \in BOOLEAN}

InitLabels ==
    /\ FilterStart(<<>>)
    /\ StatsStart
    /\ DataStart
    /\ ChartStart
    /\ IngestStart

ReadLabelRow == ReadRowFrom(LabelRows)

NextLabels == ReadLabelRow \/ DrawChart

SpecLabels == InitLabels /\ [][NextLabels]_vars

----------------------------------------------------------------------------
(* Properties of the filter pipeline.                                      *)

Filters == filter_set.filters

\* 'stored value op filter value' under the ordinary order of the integers.
Holds(op, stored, value) ==
    CASE op = "Less" -> stored < value
      [] op = "LessEqual" -> stored <= value
      [] op = "Equal" -> stored = value
      [] op = "GreaterEqual" -> stored >= value
      [] op = "Greater" -> stored > value

\* A predicate on an absent parameter, or on a parameter of the other kind.
Vacuous(f, P) == f.name \notin DOMAIN P \/ P[f.name].kind # f.kind

Satisfied(f, P) ==
    IF Vacuous(f, P) THEN TRUE
    ELSE IF f.kind = "Bool" THEN P[f.name].flag = f.value
    ELSE Holds(f.comparison, P[f.name].number, f.value)

\* C1: passes_filters(F, P) is true iff every predicate of F is satisfied,
\* a predicate on an absent parameter or on a parameter of the other kind
\* counting as satisfied, a boolean predicate being satisfied iff the values
\* are equal, and an integer predicate iff 'stored op value' holds.
C1_PassesIffAllSatisfied ==
    pc = "evaluated" =>
        (passes <=> \A i \in 1..Len(Filters) : Satisfied(Filters[i], parameters))

\* C1 witness: a rejected parameter set, with one predicate vacuous by kind,
\* and an integer predicate `<` that fails on an equal value.
C1_Witness ==
    /\ pc = "evaluated"
    /\ ~passes
    /\ \E i \in 1..Len(Filters) :
          /\ Filters[i].name \in DOMAIN parameters
          /\ Vacuous(Filters[i], parameters)
    /\ \E j \in 1..Len(Filters) :
          /\ Filters[j].kind = "Int"
          /\ Filters[j].comparison = "Less"
          /\ ~Vacuous(Filters[j], parameters)
          /\ parameters[Filters[j].name].number = Filters[j].value

\* C2: a term 'name op value' with no operator character in name or value
\* is split at exactly op, name and value trimmed; every such term with an
\* integer value gives the predicate (name, op, value).
C2_TermSplitAtItsOperator ==
    pc # "start" =>
        /\ comparisons = [i \in 1..Len(terms) |->
                            [name |-> terms[i].name,
                             comparison |-> terms[i].op,
                             value_text |-> terms[i].value]]
        /\ filter_set.status = "built" =>
              \A i \in 1..Len(terms) :
                  ParsesU64(terms[i].value) =>
                      \E j \in 1..Len(Filters) :
                          Filters[j] = FilterInt(terms[i].name, terms[i].op,
                                                 ParseU64(terms[i].value))

\* C2 witness: a padded `<=` term and a `>=` term, both built into
\* predicates with their own operator.
C2_Witness ==
    /\ pc = "built"
    /\ filter_set.status = "built"
    /\ Len(terms) = 2
    /\ terms[1].op = "LessEqual" /\ terms[1].pad
    /\ terms[2].op = "GreaterEqual"
    /\ \E j \in 1..2 : Filters[j].kind = "Int" /\ Filters[j].comparison = "LessEqual"
    /\ \E j \in 1..2 : Filters[j].kind = "Int" /\ Filters[j].comparison = "GreaterEqual"

\* A valid term: a boolean value with ==, or an integer value.
ValidTerm(t) ==
    \/ ParsesBool(t.value) /\ t.op = "Equal"
    \/ ~ParsesBool(t.value) /\ ParsesU64(t.value)

\* C3: for a filter set F built from valid terms, new(display_text(F)) has
\* the same ordered list of predicates as F.
C3_RoundTrip ==
    (pc = "reparsed" /\ \A i \in 1..Len(terms) : ValidTerm(terms[i])) =>
        filter_set2 = filter_set

Orderings(n) == {p \in [1..n -> 1..n] : \A i, j \in 1..n : p[i] = p[j] => i = j}

\* The texts that hold the same terms as ts, in any order and with any
\* white space around names and values.
Reformatted(ts) ==
    {[i \in 1..Len(ts) |-> [ts[p[i]] EXCEPT !.pad = pad[i]]] :
        p \in Orderings(Len(ts)), pad \in [1..Len(ts) -> BOOLEAN]}

\* C4: two filter texts that hold the same terms and differ only in white
\* space and in the order of the terms have the same display_text.
C4_DisplayIndependentOfFormatting ==
    pc = "displayed" =>
        \A ts \in Reformatted(terms) :
            /\ FilterSetNew(JoinTerms(ts)).status = "built"
            /\ display_text(FilterSetNew(JoinTerms(ts)).filters) = text_out

BoolWithoutEquality(t) == ParsesBool(t.value) /\ t.op # "Equal"

\* C5: a term with a boolean value and another operator than == makes
\* ParameterFilterSet::new fail; no filter set is produced, whatever the
\* other terms.
C5_BoolWithoutEqualityIsFatal ==
    (pc # "start" /\ \E i \in 1..Len(terms) : BoolWithoutEquality(terms[i])) =>
        filter_set.status = "panicked"

\* C5 witness: the construction has failed on a text whose first term is
\* valid and whose second has a boolean value with `<`.
C5_Witness ==
    /\ pc = "built"
    /\ filter_set.status = "panicked"
    /\ Len(terms) = 2
    /\ ValidTerm(terms[1])
    /\ BoolWithoutEquality(terms[2])

Malformed(t) == ~ParsesBool(t.value) /\ ~ParsesU64(t.value)
WellFormedTerms(ts) == SelectSeq(ts, LAMBDA t : ~Malformed(t))

\* C6: the filter set built from a text equals the one built from the text
\* without the terms whose value is neither a boolean nor an integer, and a
\* text with only such terms gives a filter set every parameter set passes.
C6_MalformedTermDropped ==
    /\ pc # "start" => filter_set = FilterSetNew(JoinTerms(WellFormedTerms(terms)))
    /\ (pc = "evaluated" /\ \A i \in 1..Len(terms) : Malformed(terms[i])) => passes

\* C6 witness: a malformed term before a well-formed one, whose predicate
\* rejects the parameter set.
C6_Witness ==
    /\ pc = "evaluated"
    /\ Len(terms) = 2
    /\ Malformed(terms[1])
    /\ ~Malformed(terms[2])
    /\ Len(Filters) = 1
    /\ ~passes

----------------------------------------------------------------------------
(* Properties of RunningStatistics.                                        *)

\* The sum of xs, added up from the first to the last.
RECURSIVE SumOf(_)
SumOf(xs) ==
    IF xs = <<>> THEN Zero
    ELSE FAdd(SumOf(SubSeq(xs, 1, Len(xs) - 1)), xs[Len(xs)])

ArithmeticMean(xs) == FDiv(SumOf(xs), FromU64(Len(xs)))

\* The unbiased sample variance of xs, from all of xs at once.
SampleVariance(xs) ==
    LET m == ArithmeticMean(xs)
        squares == [i \in 1..Len(xs) |-> FMul(FSub(xs[i], m), FSub(xs[i], m))]
    IN  FDiv(SumOf(squares), FromU64(Len(xs) - 1))

MeanAndVarianceOfSamples ==
    /\ statistics.num = Len(sampled)
    /\ Len(sampled) = 0 => mean(statistics) = Zero
    /\ Len(sampled) <= 1 => variance(statistics) = Zero
    /\ Len(sampled) >= 1 => mean(statistics) = ArithmeticMean(sampled)
    /\ Len(sampled) >= 2 => variance(statistics) = SampleVariance(sampled)

\* C9 as stated: after any sequence of add_sample calls mean() is sum / n
\* and variance() the unbiased sample variance, 0 for n = 0 resp. n <= 1.
C9_AnySamples == MeanAndVarianceOfSamples

\* C9, amended: the same, for samples none of which is an infinity.
C9_NoInfiniteSample ==
    (\A i \in 1..Len(sampled) : ~IsInfinite(sampled[i])) => MeanAndVarianceOfSamples

\* C9 witness: three finite samples, not all equal, whose mean is none of
\* them.
C9_Witness ==
    /\ Len(sampled) = 3
    /\ \A i \in 1..3 : IsFinite(sampled[i]) /\ sampled[i] # mean(statistics)
    /\ variance(statistics) # Zero

----------------------------------------------------------------------------
(* Properties of the series registry.                                      *)

\* The parameter values of a row.
RowParameters(row) ==
    <<row.archive, row.compress, row.ordered, row.uniform, row.num_readers,
      row.progressive>>

\* C7: two rows read are aggregated into the same DataSet iff their base
\* names are equal and every parameter value is equal.
C7_SameSeriesIffSameIdentity ==
    \A i, j \in 1..Len(rows) :
        (placed[i] = placed[j]) <=>
            (/\ rows[i].base_name = rows[j].base_name
             /\ RowParameters(rows[i]) = RowParameters(rows[j]))

\* RunningStatistics and SampleSet as a reader sees them.
ChannelSummary(set) ==
    [count |-> Len(set.samples), min |-> set.value_min, max |-> set.value_max,
     mean |-> get_mean(set), variance |-> variance(set.statistics)]

ValueSetSummary(v) ==
    [num_commits |-> v.num_commits,
     commit_time |-> ChannelSummary(v.commit_time),
     commits_per_second |-> ChannelSummary(v.commits_per_second),
     queries_per_second |-> ChannelSummary(v.queries_per_second)]

DataSetSummary(d) ==
    [values |-> [i \in 1..Len(d.sorted_values) |-> ValueSetSummary(d.sorted_values[i])],
     max_commits |-> d.max_commits, max_commit_time |-> d.max_commit_time,
     max_commits_per_second |-> d.max_commits_per_second,
     max_queries_per_second |-> d.max_queries_per_second]

\* The series of a registry, the x-keys of each, count, minimum, maximum,
\* mean and variance of each channel at each x-key, and the maxima.
Summary(d) ==
    [series |-> [name \in DOMAIN d.datasets |-> DataSetSummary(d.datasets[name])],
     max_commits |-> d.max_commits, max_commit_time |-> d.max_commit_time,
     max_commits_per_second |-> d.max_commits_per_second,
     max_queries_per_second |-> d.max_queries_per_second]

\* The registry get_stress_test_data builds from the rows rs.
RECURSIVE Ingest(_)
Ingest(rs) ==
    IF rs = <<>> THEN StressTestData_new
    ELSE ReadRowInto(Ingest(SubSeq(rs, 1, Len(rs) - 1)), rs[Len(rs)])

\* rs with the rows at i and i + 1 exchanged.
Exchanged(rs, i) == [rs EXCEPT ![i] = rs[i + 1], ![i + 1] = rs[i]]

\* Exchanging two neighbouring rows changes nothing a reader sees. Every
\* order of the rows is reached by such exchanges, and every sequence of
\* rows is a reachable value of `rows`, so this is the same in every order.
SameInAnyOrder ==
    \A i \in 1..(Len(rows) - 1) : Summary(Ingest(Exchanged(rows, i))) = Summary(data)

\* C8 as stated: every order of the rows read gives the same series, x-keys,
\* counts, minima, maxima, means, variances and running maxima.
C8_AnyRows == SameInAnyOrder

NoInfiniteMeasurement(row) ==
    /\ ~IsInfinite(row.total_commit_time)
    /\ ~IsInfinite(CommitsPerSecond(row))
    /\ ~IsInfinite(QueriesPerSecond(row))

\* C8, amended: the same, for rows none of whose measurements is an infinity.
C8_NoInfiniteMeasurement ==
    (\A i \in 1..Len(rows) : NoInfiniteMeasurement(rows[i])) => SameInAnyOrder


\* C8 witness: three rows without an infinity, a series with two x-keys,
\* and two different samples of one channel at one of them.
C8_Witness ==
    /\ Len(rows) = 3
    /\ \A i \in 1..3 : NoInfiniteMeasurement(rows[i])
    /\ \E name \in DOMAIN data.datasets :
          LET values == data.datasets[name].sorted_values
          IN  /\ Len(values) = 2
              /\ \E i \in 1..2 :
                    /\ Len(values[i].queries_per_second.samples) = 2
                    /\ values[i].queries_per_second.value_min
                           # values[i].queries_per_second.value_max

\* The measurement channels of a ValueSet, and what a row feeds to each.
Channels == {"commit_time", "commits_per_second", "queries_per_second"}

ChannelValue(channel, row) ==
    CASE channel = "commit_time" -> row.total_commit_time
      [] channel = "commits_per_second" -> CommitsPerSecond(row)
      [] channel = "queries_per_second" -> QueriesPerSecond(row)

ChannelOf(channel, v) ==
    CASE channel = "commit_time" -> v.commit_time
      [] channel = "commits_per_second" -> v.commits_per_second
      [] channel = "queries_per_second" -> v.queries_per_second

\* The rows read that went to series `name` with x-key k.
RowsOf(name, k) ==
    {i \in 1..Len(rows) : placed[i] = name /\ rows[i].total_commits = k}

\* The x-keys of the rows read and of the ValueSets of the registry.
XKeys ==
    {rows[i].total_commits : i \in 1..Len(rows)} \cup
    UNION {{data.datasets[name].sorted_values[j].num_commits :
               j \in 1..Len(data.datasets[name].sorted_values)} :
           name \in DOMAIN data.datasets}

\* The numbers among the values series `name` got at x-key k on a channel.
NumbersOf(name, k, channel) ==
    {ChannelValue(channel, rows[i]) : i \in RowsOf(name, k)} \ {NaN}

\* m is the smallest (largest) of the numbers S: one of them, none of them
\* below (above) it; of no number at all, NaN.
IsSmallest(m, S) == IF S = {} THEN IsNaN(m) ELSE m \in S /\ \A x \in S : ~FLess(x, m)
IsLargest(m, S) == IF S = {} THEN IsNaN(m) ELSE m \in S /\ \A x \in S : ~FLess(m, x)

\* The places in the sorted_values of series `name` of the ValueSets of x-key k.
ValueSetsAt(name, k) ==
    {j \in 1..Len(data.datasets[name].sorted_values) :
        data.datasets[name].sorted_values[j].num_commits = k}

\* C13: every series a row went to is in the registry; a (series, x-key)
\* pair has exactly one ValueSet if a row of it has been read and none
\* otherwise; each channel of that ValueSet holds as many samples as rows
\* of the pair have been read, its minimum is the smallest and its maximum
\* the largest of the values of those rows (values that are NaN left out).
C13_OneValueSetPerSeriesAndKey ==
    /\ \A i \in 1..Len(rows) : placed[i] \in DOMAIN data.datasets
    /\ \A name \in DOMAIN data.datasets : \A k \in XKeys :
          /\ Cardinality(ValueSetsAt(name, k)) = (IF RowsOf(name, k) = {} THEN 0 ELSE 1)
          /\ \A j \in ValueSetsAt(name, k) : \A channel \in Channels :
                LET set == ChannelOf(channel, data.datasets[name].sorted_values[j])
                IN  /\ Len(set.samples) = Cardinality(RowsOf(name, k))
                    /\ IsSmallest(set.value_min, NumbersOf(name, k, channel))
                    /\ IsLargest(set.value_max, NumbersOf(name, k, channel))

\* C13 witness: three rows read, two of one series at one x-key with the
\* values 1 and 3 on the first channel, which has count 2, minimum 1,
\* maximum 3 and mean 2, the third row at another x-key of the series.
C13_Witness ==
    /\ Len(rows) = 3
    /\ \E name \in DOMAIN data.datasets :
          LET values == data.datasets[name].sorted_values
          IN  /\ Len(values) = 2
              /\ \E j \in 1..2 :
                    /\ values[j].commit_time.samples = <<One, Fin(3, 1)>>
                    /\ values[j].commit_time.value_min = One
                    /\ values[j].commit_time.value_max = Fin(3, 1)
                    /\ get_mean(values[j].commit_time) = Fin(2, 1)

\* C14: the sorted_values of every series are strictly ascending by
\* num_commits, in whatever order the x-keys were read.
C14_SortedValuesStrictlyAscending ==
    \A name \in DOMAIN data.datasets :
        LET values == data.datasets[name].sorted_values
        IN  \A i, j \in 1..Len(values) :
                i < j => values[i].num_commits < values[j].num_commits

\* C14 witness: three rows of one series, the x-key of the second below
\* that of the first and the third at the x-key of the first again.
C14_Witness ==
    /\ Len(rows) = 3
    /\ placed[1] = placed[2] /\ placed[2] = placed[3]
    /\ rows[2].total_commits < rows[1].total_commits
    /\ rows[3].total_commits = rows[1].total_commits
    /\ Len(data.datasets[placed[1]].sorted_values) = 2

\* Three rows of one series with their x-keys descending.
DescendingKeysRead ==
    /\ Len(rows) = 3
    /\ placed[1] = placed[2] /\ placed[2] = placed[3]
    /\ rows[1].total_commits > rows[2].total_commits
    /\ rows[2].total_commits > rows[3].total_commits

\* x >= y on f64: false when either is NaN.
AtLeast(x, y) == ~IsNaN(x) /\ ~IsNaN(y) /\ ~FLess(x, y)

\* The running maxima of `new` (a StressTestData or a DataSet) are at least
\* those of `old`.
MaximaAtLeast(new, old) ==
    /\ new.max_commits >= old.max_commits
    /\ AtLeast(new.max_commit_time, old.max_commit_time)
    /\ AtLeast(new.max_commits_per_second, old.max_commits_per_second)
    /\ AtLeast(new.max_queries_per_second, old.max_queries_per_second)

\* The running maxima of `holder` are at least the values of the sample of
\* `row`.
MaximaAtLeastSample(holder, row) ==
    /\ holder.max_commits >= row.total_commits
    /\ AtLeast(holder.max_commit_time, row.total_commit_time)
    /\ AtLeast(holder.max_commits_per_second, CommitsPerSecond(row))
    /\ AtLeast(holder.max_queries_per_second, QueriesPerSecond(row))

\* The same, a value of the sample that is NaN left out.
MaximaAtLeastNumbers(holder, row) ==
    /\ holder.max_commits >= row.total_commits
    /\ \/ IsNaN(row.total_commit_time)
       \/ AtLeast(holder.max_commit_time, row.total_commit_time)
    /\ \/ IsNaN(CommitsPerSecond(row))
       \/ AtLeast(holder.max_commits_per_second, CommitsPerSecond(row))
    /\ \/ IsNaN(QueriesPerSecond(row))
       \/ AtLeast(holder.max_queries_per_second, QueriesPerSecond(row))

\* A step that adds a sample lowers no global maximum and no maximum of a
\* series.
NoMaximumShrinks ==
    /\ MaximaAtLeast(data', data)
    /\ \A name \in DOMAIN data.datasets :
          /\ name \in DOMAIN data'.datasets
          /\ MaximaAtLeast(data'.datasets[name], data.datasets[name])

\* Every global maximum is at least the maximum of every series.
GlobalAtLeastSeries ==
    \A name \in DOMAIN data.datasets : MaximaAtLeast(data, data.datasets[name])

\* C15 as stated: across every add_sample step each global maximum and each
\* maximum of a series is at least its value before the step and at least
\* the value of the sample just added, and in every state each global
\* maximum is at least the maximum of every series.
C15_AtLeastEverySample ==
    /\ [][rows' # rows =>
            /\ NoMaximumShrinks
            /\ MaximaAtLeastSample(data', rows'[Len(rows')])
            /\ MaximaAtLeastSample(data'.datasets[placed'[Len(placed')]],
                                   rows'[Len(rows')])]_vars
    /\ []GlobalAtLeastSeries

\* C15, amended: the same, the maxima being at least the values of the
\* sample just added that are not NaN.
C15_MaximaOnlyGrow ==
    /\ [][rows' # rows =>
            /\ NoMaximumShrinks
            /\ MaximaAtLeastNumbers(data', rows'[Len(rows')])
            /\ MaximaAtLeastNumbers(data'.datasets[placed'[Len(placed')]],
                                    rows'[Len(rows')])]_vars
    /\ []GlobalAtLeastSeries

\* C15 witness: three rows read into two series, the last with a sample
\* value that is NaN and an x-key below the maximum of its series, and a
\* global maximum above the maximum of the other series.
C15_Witness ==
    /\ Len(rows) = 3
    /\ Cardinality(DOMAIN data.datasets) = 2
    /\ IsNaN(QueriesPerSecond(rows[3]))
    /\ rows[3].total_commits < data.datasets[placed[3]].max_commits
    /\ \E name \in DOMAIN data.datasets :
          data.datasets[name].max_commits < data.max_commits

\* The ValueSets of a sequence of them, as a set.
ValueSetsOf(values) == {values[j] : j \in 1..Len(values)}

\* ValueSet `new` is ValueSet `old` with one sample of `row` added to each
\* channel and no sample before it changed; `old` is <<>> for none.
OneSampleAdded(new, old, row) ==
    \A channel \in Channels :
        ChannelOf(channel, new).samples =
            Append(IF old = <<>> THEN <<>> ELSE ChannelOf(channel, old[1]).samples,
                   ChannelValue(channel, row))

\* DataSet `new` is DataSet `old` (<<>> for none) changed at x-key k alone,
\* where row has added one sample: every ValueSet of another x-key is as it
\* was, none has gone and none has come.
OnlyKeyChanged(new, old, k, row) ==
    LET before == IF old = <<>> THEN {} ELSE ValueSetsOf(old[1].sorted_values)
        after == ValueSetsOf(new.sorted_values)
    IN  /\ {v \in after : v.num_commits # k} = {v \in before : v.num_commits # k}
        /\ \E v \in after :
              /\ v.num_commits = k
              /\ \A w \in after : w.num_commits = k => w = v
              /\ OneSampleAdded(v, IF \E w \in before : w.num_commits = k
                                   THEN <<CHOOSE w \in before : w.num_commits = k>>
                                   ELSE <<>>, row)
        /\ old # <<>> =>
              /\ new.base_name = old[1].base_name
              /\ new.set_bool_parameters = old[1].set_bool_parameters

\* A step that adds the sample of a row changes the DataSet of the derived
\* name alone, and in it the ValueSet of the x-key of the row alone.
AddSampleIsLocal ==
    LET row == rows'[Len(rows')]
        name == placed'[Len(placed')]
    IN  /\ name = get_name(row.base_name, SetBoolParameters(row))
        /\ DOMAIN data'.datasets = DOMAIN data.datasets \cup {name}
        /\ \A other \in DOMAIN data.datasets :
              other # name => data'.datasets[other] = data.datasets[other]
        /\ OnlyKeyChanged(data'.datasets[name],
                          IF name \in DOMAIN data.datasets
                          THEN <<data.datasets[name]>> ELSE <<>>,
                          row.total_commits, row)

\* The number of samples held on a channel over all series and x-keys.
SamplesHeld(channel) ==
    Cardinality(UNION {UNION {
        {<<name, j, i>> : i \in 1..Len(ChannelOf(channel,
                                   data.datasets[name].sorted_values[j]).samples)} :
            j \in 1..Len(data.datasets[name].sorted_values)} :
        name \in DOMAIN data.datasets})

\* C16: an add_sample step changes only the DataSet of the derived series
\* name and in it only the ValueSet at the x-key (and the running maxima),
\* adding one sample to each channel; no series and no ValueSet is removed;
\* in every state each channel holds as many samples over all series and
\* x-keys as rows have been read.
C16_AddSampleIsLocal ==
    /\ [][rows' # rows => AddSampleIsLocal]_vars
    /\ [](\A channel \in Channels : SamplesHeld(channel) = Len(rows))

\* C16 witness: three rows read, the third into the series of the first at
\* another x-key, the second into another series.
C16_Witness ==
    /\ Len(rows) = 3
    /\ placed[3] = placed[1]
    /\ placed[2] # placed[1]
    /\ rows[3].total_commits # rows[1].total_commits
    /\ Len(data.datasets[placed[3]].sorted_values) = 2
    /\ Cardinality(DOMAIN data.datasets) = 2

----------------------------------------------------------------------------
(* Properties of the labels.                                               *)

PassingSeries == Passing(data, chart_bool_parameters)
Discriminating == BoolParameterNames \ exclude_parameters

\* The parameters that are not constant over the series `entries`.
NotConstant(entries) ==
    {param \in BoolParameterNames :
        \E i, j \in 1..Len(entries) :
            (param \in entries[i].set_bool_parameters)
                # (param \in entries[j].set_bool_parameters)}

\* The series `entries`, the one at r put first.
ReferenceFirst(entries, r) ==
    <<entries[r]>> \o SubSeq(entries, 1, r - 1) \o SubSeq(entries, r + 1, Len(entries))

\* C10: the discriminating parameters, found by comparing every passing
\* series with the first one, are the parameters that are not constant over
\* the passing series, whichever passing series is the reference.
C10_DiscriminatingIsNotConstant ==
    drawn =>
        LET entries == PassingSeries
        IN  /\ Discriminating = NotConstant(entries)
            /\ \A r \in 1..Len(entries) :
                  Changed(ReferenceFirst(entries, r)) = Discriminating

\* C10 witness: a chart with a filter, a series that does not pass it, and
\* three passing series of which the second agrees with the first on a
\* parameter the third does not.
C10_Witness ==
    /\ drawn
    /\ DOMAIN chart_bool_parameters # {}
    /\ Len(PassingSeries) = 3
    /\ \E param \in Discriminating :
          /\ ~ParameterChanged(PassingSeries[2], PassingSeries[1], param)
          /\ ParameterChanged(PassingSeries[3], PassingSeries[1], param)
    /\ Discriminating # BoolParameterNames

\* The series `entries` all have the same parameters set.
SameParameters(entries) ==
    \A i, j \in 1..Len(entries) :
        entries[i].set_bool_parameters = entries[j].set_bool_parameters

\* The parameters set in exactly one of two series.
Differing(a, b) ==
    (a.set_bool_parameters \ b.set_bool_parameters)
        \cup (b.set_bool_parameters \ a.set_bool_parameters)

\* The series at k is the one series of `entries` that differs from the
\* others, which agree with each other, and it differs in `param` alone.
OneDiffers(entries, k, param) ==
    /\ Len(entries) >= 2
    /\ SameParameters(SubSeq(entries, 1, k - 1) \o SubSeq(entries, k + 1, Len(entries)))
    /\ \A i \in 1..Len(entries) : i # k => Differing(entries[k], entries[i]) = {param}

\* C11: when all passing series have the same parameters set (one passing
\* series included) no parameter is discriminating and every display name
\* is the base name of its series; when one passing series differs from the
\* others, which agree, in a single parameter, the discriminating set is
\* exactly that parameter.
C11_LabelEdgeCases ==
    drawn =>
        LET entries == PassingSeries
        IN  /\ SameParameters(entries) =>
                  /\ Discriminating = {}
                  /\ \A key \in DOMAIN display_names :
                        display_names[key] = data.datasets[key].base_name
            /\ \A k \in 1..Len(entries) : \A param \in BoolParameterNames :
                  OneDiffers(entries, k, param) => Discriminating = {param}

\* C11 witness: a chart with a filter and three passing series, two of them
\* of different base names with the same parameters set, a non-empty set,
\* and a later one that differs from them in one parameter.
C11_Witness ==
    /\ drawn
    /\ DOMAIN chart_bool_parameters # {}
    /\ Len(PassingSeries) = 3
    /\ PassingSeries[1].set_bool_parameters # {}
    /\ \E k \in 2..3 : \E param \in BoolParameterNames :
          /\ OneDiffers(PassingSeries, k, param)
          /\ Discriminating = {param}
          /\ \E key \in DOMAIN display_names :
                display_names[key] # data.datasets[key].base_name

\* C17: any two distinct series that pass the filter of the chart get
\* different display names.
C17_DisplayNamesDistinct ==
    drawn =>
        \A key1, key2 \in DOMAIN display_names :
            key1 # key2 => display_names[key1] # display_names[key2]

\* The same for the series of a registry none of whose base names holds
\* the opening of a parameter suffix, " (".
PlainBaseNames ==
    \A key \in DOMAIN data.datasets :
        Find(data.datasets[key].base_name, <<" ", "(">>) = -1

DistinctForPlainBaseNames == PlainBaseNames => C17_DisplayNamesDistinct

----------------------------------------------------------------------------
(* Properties of the reading of the data files.                            *)

\* A line of the schema: as many columns as the schema has, every one of
\* them a text of its type.
WellFormed(line) ==
    /\ Len(Split(line)) = Len(FieldKinds)
    /\ \A i \in 1..Len(FieldKinds) : FieldParses(FieldKinds[i], Split(line)[i])

\* C12: a data row with a column count different from the schema (too few
\* or too many) or a field that does not parse aborts the reading, and no
\* registry is returned: once such a line has been handed to the loop the
\* reading has panicked, so a registry is returned only if every line was
\* well-formed.
C12_MalformedRowIsFatal ==
    \A i \in 1..Len(lines) : ~WellFormed(lines[i]) => position = "panicked"

\* The same for every malformed line but one with too many columns.
TooManyColumns(line) == Len(Split(line)) > Len(FieldKinds)

MalformedButTooManyIsFatal ==
    \A i \in 1..Len(lines) :
        (~WellFormed(lines[i]) /\ ~TooManyColumns(lines[i])) => position = "panicked"

\* Nothing is returned after a panic, and the rows of the registry that is
\* returned are those of the lines.
ReturnedHoldsEveryLine ==
    position = "returned" =>
        /\ Len(rows) = Len(lines)
        /\ \A i \in 1..Len(lines) : rows[i] = ParsedRow(lines[i])

====
